---- MODULE Spec2Model ----
(***************************************************************************)
(* A model of the quiz application: the QuizManager session state machine  *)
(* of quiz_logic.py, the question provider of llm_service.py, the CSV      *)
(* export of file_exporter.py, and of app.py the progress computation, the *)
(* retry loop around the provider and the Streamlit script with its user   *)
(* sessions.                                                               *)
(*                                                                         *)
(* Python values are modelled as follows.  A string is a TLA+ string, a    *)
(* bool a BOOLEAN.  A dict is a record.  A list of dicts that the session  *)
(* owns (questions, user_answers) is a sequence.  The options list of a    *)
(* question is a mutable list OBJECT that both the question dict and the   *)
(* answer dict built from it refer to, so it lives in `heap` and the dicts *)
(* hold its address.  A function that may return None returns a record     *)
(* with a `none` flag.                                                     *)
(***************************************************************************)
EXTENDS Integers, Sequences, FiniteSets, TLC

\* ------------------------------------------------------------------ bounds

\* The longest question list a caller loads.
MaxQuestions == 3

\* How many times a caller that holds a loaded record mutates it
\* (SpecMutation only).
MaxMutations == 1

\* ------------------------------------------------------------------ inputs

\* Validated question records as llm_service.py admits them: four fields,
\* a list of four options, correct_answer one of the options.  The third
\* differs from the first by case only and has an empty explanation.
QuestionPool ==
    { [question |-> "Q1", options |-> <<"A", "B", "C", "D">>,
       correct_answer |-> "A", explanation |-> "E1"],
      [question |-> "Q2", options |-> <<"A", "B", "C", "D">>,
       correct_answer |-> "B", explanation |-> "E2"],
      [question |-> "Q3", options |-> <<"a", "b", "c", "d">>,
       correct_answer |-> "a", explanation |-> ""] }

\* The texts a caller submits: options of the pool's questions.
ChosenOptions == {"A", "B", "a"}

\* The lists a caller passes to load_questions, the empty list included.
QuestionLists == UNION { [1..n -> QuestionPool] : n \in 0..MaxQuestions }

\* ------------------------------------------------------------------- state

VARIABLES
    questions,              \* self.questions: dicts, options held by address
    current_question_index, \* self.current_question_index
    user_answers,           \* self.user_answers: dicts, options held by address
    score,                  \* self.score
    quiz_started,           \* self.quiz_started
    heap,                   \* the options list objects, by address
    last,                   \* the last call made on the session and its result
    submit_calls,           \* submit_answer calls since the last load_questions
    mutations,              \* mutations made by a caller holding a record
    provider,               \* one call of LLMService.generate_quiz_questions
    retry,                  \* generate_questions_with_retry and its caller
    exported,               \* the last call of export_to_csv
    api_key,                \* GOOGLE_API_KEY is in the secrets or environment
    llm_service,            \* get_llm_service holds a cached LLMService
    ss,                     \* st.session_state of each user session
    view,                   \* the page the last script run of a session drew
    pc,                     \* where the script of each user session stands
    supplied                \* the topic each user last asked a quiz about

\* The Streamlit app: its process-wide cache and its user sessions.
app == <<api_key, llm_service, ss, view, pc, supplied>>

vars == <<questions, current_question_index, user_answers, score,
          quiz_started, heap, last, submit_calls, mutations, provider, retry,
          exported, app>>

\* The state outside the QuizManager, which its methods do not touch.
others == <<provider, retry, exported, app>>

\* The user sessions (browser tabs) the app serves.
Users == {"u1", "u2"}

\* Python's None, and a value that is not None.
None == [none |-> TRUE]
Value(v) == [none |-> FALSE, value |-> v]

\* initialize_session_state: the keys the flow reads.  The two
\* last_feedback keys are absent until the first Submit.
NewSessionState ==
    [quiz_started |-> FALSE, feedback_shown |-> FALSE,
     selected_option |-> None, answer_submitted |-> Value(FALSE),
     current_topic |-> <<>>, last_feedback |-> [set |-> FALSE]]

\* No script run of the session has drawn a page yet.
NoView == [kind |-> "none"]

\* Nobody has opened the app, and no credential is configured.
AppInit ==
    /\ api_key = FALSE
    /\ llm_service = FALSE
    /\ ss = [u \in Users |-> NewSessionState]
    /\ view = [u \in Users |-> NoView]
    /\ pc = [u \in Users |-> "rerun"]
    /\ supplied = [u \in Users |-> <<>>]

\* export_to_csv has not been called.
NoExport == [op |-> "none"]

\* No request to generate a quiz is under way.
NoRequest == [pc |-> "idle"]

\* No call of the provider is under way.
NoCall == [phase |-> "none"]

\* submit_calls before any load_questions, and after reset_quiz.
NotLoaded == -1

\* ----------------------------------------------------------- pure helpers

\* The dict a record of the pool is once its options list is the object at
\* address ref.
Stored(q, ref) == [q EXCEPT !.options = ref]

\* A stored question or answer dict as a reader sees it: the options list
\* read through its address.
View(d) == [d EXCEPT !.options = heap[d.options]]

\* A list of stored dicts as a reader sees it.
Views(ds) == [i \in 1..Len(ds) |-> View(ds[i])]

\* len(x) >= self.current_question_index test of get_current_question.
HasCurrent ==
    0 <= current_question_index /\ current_question_index < Len(questions)

get_current_question_first ==
    IF HasCurrent
    THEN [none |-> FALSE, value |-> questions[1]]
    ELSE [none |-> TRUE]

\* get_current_question: the dict at the index (0-based in the code,
\* 1-based sequences here), or None.
get_current_question ==
    IF HasCurrent
    THEN [none |-> FALSE, value |-> questions[current_question_index + 1]]
    ELSE [none |-> TRUE]

is_quiz_finished_strict == current_question_index > Len(questions)

\* is_quiz_finished.
is_quiz_finished == current_question_index >= Len(questions)

get_score_summary_of_answered ==
    [total |-> Len(questions), correct |-> score,
     incorrect |-> Len(user_answers) - score]

\* get_score_summary: (total, correct, incorrect).
get_score_summary ==
    [total |-> Len(questions), correct |-> score,
     incorrect |-> Len(questions) - score]

\* A float of calculate_progress, kept as the exact quotient num / den.
Frac(n, d) == [num |-> n, den |-> d]

\* max(0.0, min(1.0, progress)).
Clamp(n, d) ==
    IF n > d THEN Frac(1, 1) ELSE IF n < 0 THEN Frac(0, 1) ELSE Frac(n, d)

calculate_progress_by_position ==
    IF questions = <<>> THEN Frac(0, 1)
    ELSE Clamp(current_question_index + 1, Len(questions))

\* calculate_progress(quiz_manager) of app.py: answered / total, 0.0 when no
\* questions are loaded.  A QuizManager always has both attributes.
calculate_progress ==
    IF questions = <<>> THEN Frac(0, 1)
    ELSE Clamp(Len(user_answers), Len(questions))

\* ------------------------------------------------------------------- Init

\* QuizManager.__init__.
Init ==
    /\ questions = <<>>
    /\ current_question_index = 0
    /\ user_answers = <<>>
    /\ score = 0
    /\ quiz_started = FALSE
    /\ heap = <<>>
    /\ last = [op |-> "__init__"]
    /\ submit_calls = NotLoaded
    /\ mutations = 0
    /\ provider = NoCall
    /\ retry = NoRequest
    /\ exported = NoExport
    /\ AppInit

\* ---------------------------------------------------------------- actions

\* Where the session stands, as the caller of load_questions or reset_quiz
\* finds it.
Phase ==
    IF questions = <<>> THEN "Empty"
    ELSE IF is_quiz_finished THEN "Finished"
    ELSE "InProgress"

load_questions_keep_answers(questions_data) ==
    /\ questions' = [i \in 1..Len(questions_data) |-> Stored(questions_data[i], i)]
    /\ heap' = [i \in 1..Len(questions_data) |-> questions_data[i].options]
    /\ current_question_index' = 0
    /\ score' = 0
    /\ quiz_started' = TRUE
    /\ last' = [op |-> "load_questions", arg |-> questions_data,
                before |-> Phase, answered |-> Len(user_answers)]
    /\ submit_calls' = 0
    /\ mutations' = 0
    /\ UNCHANGED user_answers

load_questions_keep_score(questions_data) ==
    /\ questions' = [i \in 1..Len(questions_data) |-> Stored(questions_data[i], i)]
    /\ heap' = [i \in 1..Len(questions_data) |-> questions_data[i].options]
    /\ current_question_index' = 0
    /\ user_answers' = <<>>
    /\ quiz_started' = TRUE
    /\ last' = [op |-> "load_questions", arg |-> questions_data,
                before |-> Phase, answered |-> Len(user_answers)]
    /\ submit_calls' = 0
    /\ mutations' = 0
    /\ UNCHANGED score

load_questions_keep_index(questions_data) ==
    /\ questions' = [i \in 1..Len(questions_data) |-> Stored(questions_data[i], i)]
    /\ heap' = [i \in 1..Len(questions_data) |-> questions_data[i].options]
    /\ user_answers' = <<>>
    /\ score' = 0
    /\ quiz_started' = TRUE
    /\ last' = [op |-> "load_questions", arg |-> questions_data,
                before |-> Phase, answered |-> Len(user_answers)]
    /\ submit_calls' = 0
    /\ mutations' = 0
    /\ UNCHANGED current_question_index

\* load_questions(questions_data): the caller's list is stored as it is;
\* record i of it owns the options list object at address i.
load_questions(questions_data) ==
    /\ questions' = [i \in 1..Len(questions_data) |-> Stored(questions_data[i], i)]
    /\ heap' = [i \in 1..Len(questions_data) |-> questions_data[i].options]
    /\ current_question_index' = 0
    /\ user_answers' = <<>>
    /\ score' = 0
    /\ quiz_started' = TRUE
    /\ last' = [op |-> "load_questions", arg |-> questions_data,
                before |-> Phase, answered |-> Len(user_answers)]
    /\ submit_calls' = 0
    /\ mutations' = 0

\* The call counter of submit_answer, capped so that repeated calls on a
\* finished session stay within a finite state space.
CountCall ==
    IF submit_calls = NotLoaded THEN NotLoaded
    ELSE IF submit_calls > Len(questions) THEN submit_calls
    ELSE submit_calls + 1

\* Lower-casing, on the texts of the model.
Lower(s) ==
    IF s = "A" THEN "a" ELSE IF s = "B" THEN "b" ELSE IF s = "C" THEN "c"
    ELSE IF s = "D" THEN "d" ELSE IF s = "P" THEN "p" ELSE s

IsCorrectCaseFolded(chosen_option, correct_answer) ==
    Lower(chosen_option) = Lower(correct_answer)

\* is_correct = (chosen_option == correct_answer): Python's == on strings.
IsCorrect(chosen_option, correct_answer) ==
    chosen_option = correct_answer

AppendedFirst(answers, entry) == <<entry>> \o answers

\* self.user_answers.append(entry).
Appended(answers, entry) == Append(answers, entry)

SubmitRejectedAdvancing(chosen_option) ==
    /\ last' = [op |-> "submit_answer", arg |-> chosen_option, none |-> TRUE]
    /\ current_question_index' = current_question_index + 1
    /\ UNCHANGED <<questions, user_answers, score, quiz_started, heap,
                   mutations>>

\* submit_answer, its two early returns of (None, None).
SubmitRejected(chosen_option) ==
    /\ last' = [op |-> "submit_answer", arg |-> chosen_option, none |-> TRUE]
    /\ UNCHANGED <<questions, current_question_index, user_answers, score,
                   quiz_started, heap, mutations>>

\* submit_answer once it has a current question.  The entry's strings are
\* the question's strings; its options are the question's list object.
SubmitAccepted(chosen_option) ==
    LET current_q == get_current_question.value
        correct_answer == current_q.correct_answer
        is_correct == IsCorrect(chosen_option, correct_answer)
    IN /\ score' = IF is_correct THEN score + 1 ELSE score
       /\ user_answers' = Appended(user_answers,
              [question |-> current_q.question,
               options |-> current_q.options,
               chosen_answer |-> chosen_option,
               correct_answer |-> correct_answer,
               is_correct |-> is_correct,
               explanation |-> current_q.explanation])
       /\ current_question_index' = current_question_index + 1
       /\ last' = [op |-> "submit_answer", arg |-> chosen_option,
                   none |-> FALSE, is_correct |-> is_correct,
                   explanation |-> current_q.explanation]
       /\ UNCHANGED <<questions, quiz_started, heap, mutations>>

\* submit_answer(chosen_option).
submit_answer(chosen_option) ==
    /\ submit_calls' = CountCall
    /\ IF questions = <<>> \/ get_current_question.none
       THEN SubmitRejected(chosen_option)
       ELSE SubmitAccepted(chosen_option)

call_get_current_question_advancing ==
    /\ last' = [op |-> "get_current_question", result |-> get_current_question]
    /\ current_question_index' =
           IF HasCurrent THEN current_question_index + 1
           ELSE current_question_index
    /\ UNCHANGED <<questions, user_answers, score, quiz_started, heap,
                   submit_calls, mutations>>

\* A call of get_current_question by the caller.
call_get_current_question ==
    /\ last' = [op |-> "get_current_question", result |-> get_current_question]
    /\ UNCHANGED <<questions, current_question_index, user_answers, score,
                   quiz_started, heap, submit_calls, mutations>>

\* A call of is_quiz_finished by the caller.
call_is_quiz_finished ==
    /\ last' = [op |-> "is_quiz_finished", result |-> is_quiz_finished]
    /\ UNCHANGED <<questions, current_question_index, user_answers, score,
                   quiz_started, heap, submit_calls, mutations>>

\* A call of get_score_summary by the caller.
call_get_score_summary ==
    /\ last' = [op |-> "get_score_summary", result |-> get_score_summary]
    /\ UNCHANGED <<questions, current_question_index, user_answers, score,
                   quiz_started, heap, submit_calls, mutations>>

reset_quiz_keep_answers ==
    /\ questions' = <<>>
    /\ current_question_index' = 0
    /\ score' = 0
    /\ quiz_started' = FALSE
    /\ last' = [op |-> "reset_quiz", before |-> Phase]
    /\ submit_calls' = NotLoaded
    /\ mutations' = 0
    /\ UNCHANGED <<user_answers, heap>>

\* reset_quiz.  The list objects of the dropped questions are unreachable.
reset_quiz ==
    /\ questions' = <<>>
    /\ current_question_index' = 0
    /\ user_answers' = <<>>
    /\ score' = 0
    /\ quiz_started' = FALSE
    /\ heap' = <<>>
    /\ last' = [op |-> "reset_quiz", before |-> Phase]
    /\ submit_calls' = NotLoaded
    /\ mutations' = 0

Next ==
    \/ \E questions_data \in QuestionLists :
           load_questions(questions_data) /\ UNCHANGED others
    \/ \E chosen_option \in ChosenOptions :
           submit_answer(chosen_option) /\ UNCHANGED others
    \/ call_get_current_question /\ UNCHANGED others
    \/ call_is_quiz_finished /\ UNCHANGED others
    \/ call_get_score_summary /\ UNCHANGED others
    \/ reset_quiz /\ UNCHANGED others

Spec == Init /\ [][Next]_vars

\* ------------------------------------------- a caller that mutates records
\* load_questions stores the caller's list and dicts without copying them,
\* so a caller that keeps the list can change a loaded record afterwards.

\* The texts such a caller writes.
MutationTexts == {"Z"}

\* The string fields of a question dict.
StringFields == {"question", "correct_answer", "explanation"}

\* q['options'][k] = text, on the loaded record i: the list object changes
\* in place.
mutate_options_item(i, k, text) ==
    /\ mutations < MaxMutations
    /\ heap' = [heap EXCEPT ![questions[i].options][k] = text]
    /\ mutations' = mutations + 1
    /\ last' = [op |-> "mutate", how |-> "item", record |-> i]
    /\ UNCHANGED <<questions, current_question_index, user_answers, score,
                   quiz_started, submit_calls>>

\* q['options'] = new_options, on the loaded record i: the dict is pointed
\* at a new list object.
assign_options(i, new_options) ==
    /\ mutations < MaxMutations
    /\ heap' = Append(heap, new_options)
    /\ questions' = [questions EXCEPT ![i].options = Len(heap) + 1]
    /\ mutations' = mutations + 1
    /\ last' = [op |-> "mutate", how |-> "options", record |-> i]
    /\ UNCHANGED <<current_question_index, user_answers, score, quiz_started,
                   submit_calls>>

\* q[field] = text, on the loaded record i, for a string field.
assign_field(i, field, text) ==
    /\ mutations < MaxMutations
    /\ questions' = [questions EXCEPT ![i][field] = text]
    /\ mutations' = mutations + 1
    /\ last' = [op |-> "mutate", how |-> field, record |-> i]
    /\ UNCHANGED <<current_question_index, user_answers, score, quiz_started,
                   heap, submit_calls>>

NextMutation ==
    \/ Next
    \/ \E i \in 1..Len(questions), text \in MutationTexts :
           \E k \in 1..Len(heap[questions[i].options]) :
               mutate_options_item(i, k, text) /\ UNCHANGED others
    \/ \E i \in 1..Len(questions), text \in MutationTexts :
           assign_options(i, <<text, text, text, text>>) /\ UNCHANGED others
    \/ \E i \in 1..Len(questions), text \in MutationTexts :
           \E field \in StringFields :
               assign_field(i, field, text) /\ UNCHANGED others

SpecMutation == Init /\ [][NextMutation]_vars

\* ------------------------------------------------- the question provider
\* LLMService.generate_quiz_questions of llm_service.py.  The model's reply
\* is a text; here it is the sequence of its lexical pieces: the brackets
\* and commas, runs of prose, JSON scalars, and whole JSON objects (an
\* object is one piece that begins with "{" and ends with "}"; its own
\* arrays hold strings only).  White space, which the pattern and the JSON
\* grammar both allow between pieces, is left out.

\* The longest array of elements a reply holds.
MaxElements == 3

\* The num_questions a caller asks for.
Counts == {1, 2}

\* The fields a record must have (required_fields).
RequiredFields == {"question", "options", "correct_answer", "explanation"}

\* The JSON objects a reply holds: a well-formed record; one that passes
\* every test of the code with a repeated and an empty option and an empty
\* question; one whose correct_answer differs from an option by case only;
\* one without correct_answer; one with three options.
ReplyObjects ==
    { [question |-> "Q1", options |-> <<"A", "B", "C", "D">>,
       correct_answer |-> "A", explanation |-> "E1"],
      [question |-> "", options |-> <<"A", "A", "", "B">>,
       correct_answer |-> "A", explanation |-> "E2"],
      [question |-> "Q3", options |-> <<"A", "B", "C", "D">>,
       correct_answer |-> "a", explanation |-> "E3"],
      [question |-> "Q4", options |-> <<"A", "B", "C", "D">>,
       explanation |-> "E4"],
      [question |-> "Q5", options |-> <<"A", "B", "C">>,
       correct_answer |-> "A", explanation |-> "E5"] }

\* The pieces of a reply.
Piece(t) == [t |-> t]
ObjectPiece(q) == [t |-> "obj", v |-> q]

\* The elements a reply's array holds: objects, a scalar, an array of one
\* scalar, and such an array with a comma after the scalar.  Each is the
\* pieces it is written with.
ReplyElements ==
    { <<ObjectPiece(q)>> : q \in ReplyObjects }
        \cup { <<Piece("num")>>, <<Piece("["), Piece("num"), Piece("]")>>,
               <<Piece("["), Piece("num"), Piece(","), Piece("]")>> }

\* What a reply has before its array: nothing, prose, or prose that holds
\* a bracketed reference.
ReplyPrefixes ==
    { <<>>, <<Piece("txt")>>,
      <<Piece("txt"), Piece("["), Piece("num"), Piece("]"), Piece("txt")>> }

\* What a reply has after its array: nothing, prose, or a second array.
ReplySuffixes ==
    { <<>>, <<Piece("txt")>>,
      <<Piece("txt"), Piece("["),
        ObjectPiece([question |-> "Q1", options |-> <<"A", "B", "C", "D">>,
                     correct_answer |-> "A", explanation |-> "E1"]),
        Piece("]")>> }

\* The elements of an array written one after the other with commas
\* between them.
RECURSIVE Joined(_)
Joined(elements) ==
    IF elements = <<>> THEN <<>>
    ELSE IF Len(elements) = 1 THEN elements[1]
    ELSE elements[1] \o <<Piece(",")>> \o Joined(Tail(elements))

\* A reply: prefix, "[", the elements, a comma after the last one or not,
\* "]" or not, suffix.
ReplyText(prefix, elements, trailing_comma, closed, suffix) ==
    prefix \o <<Piece("[")>> \o Joined(elements)
        \o (IF trailing_comma THEN <<Piece(",")>> ELSE <<>>)
        \o (IF closed THEN <<Piece("]")>> ELSE <<>>)
        \o suffix

\* The replies of the model: response.text, or the failure of the call
\* (generate_content or response.text raising).
Responses ==
    { [failed |-> FALSE,
       text |-> ReplyText(prefix, elements, trailing_comma, closed, suffix)] :
          prefix \in ReplyPrefixes,
          elements \in UNION { [1..n -> ReplyElements] : n \in 0..MaxElements },
          trailing_comma \in BOOLEAN, closed \in BOOLEAN,
          suffix \in ReplySuffixes }
        \cup { [failed |-> TRUE] }

\* Where a match of \[\s*{.*}\s*(?:,\s*{.*}\s*)*\] may start: at a "["
\* that an object follows at once.
MatchStarts(text) ==
    { i \in 1..Len(text) - 1 : text[i].t = "[" /\ text[i + 1].t = "obj" }

\* Where a match that starts at i may end: at a "]" that follows an object
\* at once ({.*} runs from the "{" after i to any later "}").
MatchEnds(text, i) ==
    { j \in i + 2..Len(text) : text[j].t = "]" /\ text[j - 1].t = "obj" }

Least(S) == CHOOSE x \in S : \A y \in S : x <= y
Greatest(S) == CHOOSE x \in S : \A y \in S : x >= y

\* re.search: the leftmost start that has an end, and from it the longest
\* match (.* is greedy).  None when there is none.
Search(text) ==
    LET starts == { i \in MatchStarts(text) : MatchEnds(text, i) # {} }
    IN IF starts = {} THEN [none |-> TRUE]
       ELSE LET i == Least(starts)
            IN [none |-> FALSE,
                group |-> SubSeq(text, i, Greatest(MatchEnds(text, i)))]

\* re.sub(r',\s*\]', ']', json_string): every comma that a "]" follows at
\* once is dropped.
RECURSIVE RemoveTrailingCommas(_)
RemoveTrailingCommas(text) ==
    IF text = <<>> THEN <<>>
    ELSE IF Len(text) >= 2 /\ text[1].t = "," /\ text[2].t = "]"
         THEN RemoveTrailingCommas(Tail(text))
         ELSE <<text[1]>> \o RemoveTrailingCommas(Tail(text))

\* json.loads, by recursive descent.  A value is an object, a scalar or an
\* array; an array is "[" "]" or "[" value ("," value)* "]".  The result of
\* reading a value at position i: whether there is one, where it ends, and
\* the Python value read.
NoValue == [ok |-> FALSE]

RECURSIVE ReadValue(_, _), ReadItems(_, _, _)
ReadValue(text, i) ==
    IF i > Len(text) THEN NoValue
    ELSE IF text[i].t = "obj"
         THEN [ok |-> TRUE, next |-> i + 1, value |-> [t |-> "dict", v |-> text[i].v]]
    ELSE IF text[i].t = "num"
         THEN [ok |-> TRUE, next |-> i + 1, value |-> [t |-> "int"]]
    ELSE IF text[i].t = "["
         THEN IF i + 1 <= Len(text) /\ text[i + 1].t = "]"
              THEN [ok |-> TRUE, next |-> i + 2,
                    value |-> [t |-> "list", items |-> <<>>]]
              ELSE ReadItems(text, i + 1, <<>>)
    ELSE NoValue

ReadItems(text, i, items) ==
    LET item == ReadValue(text, i)
    IN IF ~item.ok THEN NoValue
       ELSE IF item.next > Len(text) THEN NoValue
       ELSE IF text[item.next].t = ","
            THEN ReadItems(text, item.next + 1, Append(items, item.value))
       ELSE IF text[item.next].t = "]"
            THEN [ok |-> TRUE, next |-> item.next + 1,
                  value |-> [t |-> "list", items |-> Append(items, item.value)]]
       ELSE NoValue

\* json.loads(json_string): the value, or JSONDecodeError when the text is
\* not one JSON value from its first piece to its last.
JsonLoads(text) ==
    LET read == ReadValue(text, 1)
    IN IF read.ok /\ read.next = Len(text) + 1
       THEN [raised |-> "none", value |-> read.value]
       ELSE [raised |-> "JSONDecodeError"]

Untrimmed(questions_data, num_questions) == questions_data

\* questions_data[:num_questions] when more were parsed than asked for.
Trimmed(questions_data, num_questions) ==
    IF Len(questions_data) > num_questions
    THEN SubSeq(questions_data, 1, num_questions)
    ELSE questions_data

\* The members of a list of strings.
Members(list) == { list[k] : k \in 1..Len(list) }

CheckedWithoutAnswerTest(q) ==
    IF q.t \in {"int"} THEN "TypeError"
    ELSE IF q.t = "list" THEN "skip"
    ELSE IF ~(RequiredFields \subseteq DOMAIN q.v) THEN "skip"
    ELSE IF Len(q.v.options) # 4 THEN "skip"
    ELSE "append"

\* The body of the validation loop for one parsed element q: "append" when
\* q passes the three tests, "skip" when one of them fails, "TypeError"
\* when `field in q` is asked of a number.  The options of the objects of
\* the model are lists; the elements of a parsed list here are numbers,
\* none of them a field name.
Checked(q) ==
    IF q.t \in {"int"} THEN "TypeError"
    ELSE IF q.t = "list" THEN "skip"
    ELSE IF ~(RequiredFields \subseteq DOMAIN q.v) THEN "skip"
    ELSE IF Len(q.v.options) # 4 THEN "skip"
    ELSE IF q.v.correct_answer \notin Members(q.v.options) THEN "skip"
    ELSE "append"

\* The validation loop: the elements that pass, in order.  The try inside
\* the loop turns an exception into a skip of that element alone.
RECURSIVE Validated(_)
Validated(questions_data) ==
    IF questions_data = <<>> THEN <<>>
    ELSE (IF Checked(questions_data[1]) = "append"
          THEN <<questions_data[1].v>> ELSE <<>>)
             \o Validated(Tail(questions_data))

CaughtDecodeErrorOnly(exception) == exception = "JSONDecodeError"

\* except json.JSONDecodeError / except Exception of the outer try: every
\* exception of the body is caught and [] returned.
Caught(exception) == exception \in {"JSONDecodeError", "Exception"}

\* What a call returns or raises, given what its body did.
Outcome(raised, value) ==
    IF raised = "none" THEN [raised |-> "none", value |-> value]
    ELSE IF Caught(raised) THEN [raised |-> "none", value |-> <<>>]
    ELSE [raised |-> raised]

\* generate_quiz_questions(topic, num_questions) on a reply of the model.
\* The topic goes into the prompt only.  The record keeps what each stage
\* produced.
Generated(response, num_questions) ==
    IF response.failed
    THEN [stage |-> "call", result |-> Outcome("Exception", <<>>)]
    ELSE LET json_match == Search(response.text)
         IN IF json_match.none
            THEN [stage |-> "search", result |-> Outcome("none", <<>>)]
            ELSE LET json_string == RemoveTrailingCommas(json_match.group)
                     loaded == JsonLoads(json_string)
                 IN IF loaded.raised # "none"
                    THEN [stage |-> "loads", json_string |-> json_string,
                          result |-> Outcome(loaded.raised, <<>>)]
                    ELSE LET questions_data ==
                                 Trimmed(loaded.value.items, num_questions)
                         IN [stage |-> "validate",
                             json_string |-> json_string,
                             parsed |-> loaded.value.items,
                             result |-> Outcome("none", Validated(questions_data))]

\* A call is made: the model has replied.
ProviderInit ==
    \E response \in Responses, num_questions \in Counts :
        provider = [phase |-> "called", response |-> response,
                    num_questions |-> num_questions]

\* The call runs to its return.
generate_quiz_questions ==
    /\ provider.phase = "called"
    /\ provider' = [phase |-> "returned", response |-> provider.response,
                    num_questions |-> provider.num_questions,
                    run |-> Generated(provider.response, provider.num_questions)]
    /\ UNCHANGED <<questions, current_question_index, user_answers, score,
                   quiz_started, heap, last, submit_calls, mutations, retry,
                   exported, app>>

InitGenerate ==
    /\ questions = <<>>
    /\ current_question_index = 0
    /\ user_answers = <<>>
    /\ score = 0
    /\ quiz_started = FALSE
    /\ heap = <<>>
    /\ last = [op |-> "__init__"]
    /\ submit_calls = NotLoaded
    /\ mutations = 0
    /\ ProviderInit
    /\ retry = NoRequest
    /\ exported = NoExport
    /\ AppInit

NextGenerate == generate_quiz_questions

SpecGenerate == InitGenerate /\ [][NextGenerate]_vars

\* ------------------------------------------------------ the retry loop
\* generate_questions_with_retry and generate_questions_safely of app.py,
\* and the caller's use of the result (main, the Generate button).

\* max_retries, the default of generate_questions_with_retry.
max_retries == 3

\* What generate_quiz_questions can return or raise for each num_questions,
\* over the replies of the model.
GenerateResults ==
    [num_questions \in Counts |->
        { Generated(response, num_questions).result : response \in Responses }]

\* generate_questions_safely: the provider's list, or None when the call
\* raised (except Exception).  The provider takes topic and num_questions
\* by keyword, so the fallbacks for other signatures are not entered.
generate_questions_safely(result) ==
    IF result.raised = "none" THEN [none |-> FALSE, value |-> result.value]
    ELSE [none |-> TRUE]

AcceptedWhenFull(questions_data, num_questions) ==
    /\ ~questions_data.none
    /\ Len(questions_data.value) = num_questions

\* `if questions:` of the loop: a list that is not None and not empty is
\* returned whatever its length.
Accepted(questions_data, num_questions) ==
    /\ ~questions_data.none
    /\ questions_data.value # <<>>

\* questions, or questions[:num_questions] when there are more.
Returned_questions(questions_data, num_questions) ==
    [none |-> FALSE, value |-> Trimmed(questions_data.value, num_questions)]

\* The Generate button with a topic: generate_questions_with_retry is
\* entered.
request_quiz(num_questions) ==
    /\ retry.pc \in {"idle", "failed"}
    /\ retry' = [pc |-> "loop", num_questions |-> num_questions,
                 attempt |-> 0, outcomes |-> <<>>]
    /\ UNCHANGED <<questions, current_question_index, user_answers, score,
                   quiz_started, heap, last, submit_calls, mutations, provider,
                   exported, app>>

\* One pass of `for attempt in range(max_retries)`.
attempt_once(result) ==
    /\ retry.pc = "loop"
    /\ retry.attempt < max_retries
    /\ LET questions_data == generate_questions_safely(result)
           outcomes == Append(retry.outcomes, questions_data)
       IN retry' =
              IF Accepted(questions_data, retry.num_questions)
              THEN [pc |-> "returned", num_questions |-> retry.num_questions,
                    outcomes |-> outcomes,
                    result |-> Returned_questions(questions_data,
                                                  retry.num_questions)]
              ELSE IF retry.attempt < max_retries - 1
              THEN [retry EXCEPT !.attempt = @ + 1, !.outcomes = outcomes]
              ELSE [pc |-> "returned", num_questions |-> retry.num_questions,
                    outcomes |-> outcomes, result |-> [none |-> TRUE]]
    /\ UNCHANGED <<questions, current_question_index, user_answers, score,
                   quiz_started, heap, last, submit_calls, mutations, provider,
                   exported, app>>

\* The caller with the result: a non-empty list is loaded, anything else is
\* reported as a failure to generate.
use_questions ==
    /\ retry.pc = "returned"
    /\ IF ~retry.result.none /\ Len(retry.result.value) > 0
       THEN /\ load_questions(retry.result.value)
            /\ retry' = [retry EXCEPT !.pc = "loaded"]
       ELSE /\ retry' = [retry EXCEPT !.pc = "failed"]
            /\ UNCHANGED <<questions, current_question_index, user_answers,
                           score, quiz_started, heap, last, submit_calls,
                           mutations>>
    /\ UNCHANGED <<provider, exported, app>>

\* Start New Quiz after a quiz was loaded.
start_new_quiz ==
    /\ retry.pc = "loaded"
    /\ reset_quiz
    /\ retry' = NoRequest
    /\ UNCHANGED <<provider, exported, app>>

\* A pass of the loop with any outcome of the provider's call.
attempt ==
    /\ retry.pc = "loop"
    /\ \E result \in GenerateResults[retry.num_questions] : attempt_once(result)

NextRetry ==
    \/ \E num_questions \in Counts : request_quiz(num_questions)
    \/ attempt
    \/ use_questions
    \/ \E chosen_option \in ChosenOptions :
           /\ retry.pc = "loaded"
           /\ HasCurrent
           /\ submit_answer(chosen_option)
           /\ UNCHANGED others
    \/ start_new_quiz

\* The loop and its caller are straight-line code: once entered they run on.
SpecRetry ==
    /\ Init
    /\ [][NextRetry]_vars
    /\ WF_vars(attempt)
    /\ WF_vars(use_questions)

\* --------------------------------------------------------- the exporter
\* export_to_csv of file_exporter.py, on the answer log of the session.

\* sep.join(items): Python's str.join on a list of strings.
RECURSIVE Join(_, _)
Join(items, sep) ==
    IF items = <<>> THEN ""
    ELSE IF Len(items) = 1 THEN items[1]
    ELSE items[1] \o sep \o Join(Tail(items), sep)

\* pd.DataFrame(quiz_results): one row per dict, in order; the columns are
\* the keys of the dicts, so a frame made from the empty list has none.
DataFrame(quiz_results) ==
    [columns |-> IF quiz_results = <<>> THEN {}
                 ELSE DOMAIN quiz_results[1],
     rows |-> quiz_results]

\* export_to_csv(quiz_results): df['options'] is a KeyError on a frame
\* without that column; otherwise the rows whose text to_csv writes.
export_to_csv(quiz_results) ==
    LET df == DataFrame(quiz_results)
    IN IF "options" \notin df.columns
       THEN [raised |-> "KeyError"]
       ELSE [raised |-> "none",
             rows |-> [i \in 1..Len(df.rows) |->
                          [df.rows[i] EXCEPT !.options = Join(@, "; ")]]]

\* A call of export_to_csv(quiz_manager.user_answers).  The frame holds its
\* own copy of the data, and the join makes new strings: nothing is assigned
\* to the log.
call_export_to_csv ==
    /\ UNCHANGED <<questions, current_question_index, user_answers, score,
                   quiz_started, heap, last, submit_calls, mutations,
                   provider, retry, app>>
    /\ exported' = [op |-> "export_to_csv",
                    quiz_results |-> Views(user_answers),
                    result |-> export_to_csv(Views(user_answers)),
                    after |-> Views(user_answers)']

\* The answers given to a list of questions: chosen[i] is the text submitted
\* for questions_data[i].
InitExport ==
    \E questions_data \in QuestionLists :
        \E chosen \in [1..Len(questions_data) -> ChosenOptions] :
            LET n == Len(questions_data)
                correct == { i \in 1..n :
                              IsCorrect(chosen[i],
                                        questions_data[i].correct_answer) }
            IN /\ questions = [i \in 1..n |-> Stored(questions_data[i], i)]
               /\ heap = [i \in 1..n |-> questions_data[i].options]
               /\ current_question_index = n
               /\ user_answers =
                      [i \in 1..n |->
                          [question |-> questions_data[i].question,
                           options |-> i,
                           chosen_answer |-> chosen[i],
                           correct_answer |-> questions_data[i].correct_answer,
                           is_correct |-> i \in correct,
                           explanation |-> questions_data[i].explanation]]
               /\ score = Cardinality(correct)
               /\ quiz_started = (n > 0)
               /\ last = [op |-> "__init__"]
               /\ submit_calls = IF n > 0 THEN n ELSE NotLoaded
               /\ mutations = 0
               /\ provider = NoCall
               /\ retry = NoRequest
               /\ exported = NoExport
               /\ AppInit

NextExport == call_export_to_csv

\* The sessions whose every question was answered, the session without
\* questions among them, and one call of export_to_csv on the log.
SpecExport == InitExport /\ [][NextExport]_vars

\* ---------------------------------------------------------------- the app
\* main() of app.py.  Streamlit runs the script from the top for every
\* event of a user session, each session in a thread of its own, and
\* st.rerun() ends the run and starts another.  get_llm_service and
\* get_quiz_manager are cached with st.cache_resource: the one LLMService
\* and the one QuizManager of the process are handed to every session, so
\* the QuizManager of the app is the session modelled above.

\* The longest quiz the provider gives the app.
MaxAppQuestions == 2

\* The QuizManager of get_quiz_manager.
quiz_manager ==
    <<questions, current_question_index, user_answers, score, quiz_started,
      heap, last, submit_calls, mutations>>

\* The records the provider gives the app, and what
\* generate_questions_with_retry returns: None or a list that is not empty,
\* here of different questions.  The two records of the pool differ in
\* the texts of their options.
AppPool == { q \in QuestionPool : q.question \in {"Q1", "Q3"} }
RetryResults ==
    {None} \cup
    { Value(l) : l \in { m \in UNION { [1..n -> AppPool] :
                                          n \in 1..MaxAppQuestions } :
                            \A i, j \in 1..Len(m) : m[i] = m[j] => i = j } }

\* Texts typed into the topic box, and the topic buttons, as lists of
\* characters.
TopicInputs == { <<" ">>, <<" ", "A", " ", "b">> }
example_topics == { <<"P", "h", "y", "s", "i", "c", "s">> }

\* str.strip() on spaces.
RECURSIVE Strip(_)
Strip(text) ==
    IF text = <<>> THEN text
    ELSE IF Head(text) = " " THEN Strip(Tail(text))
    ELSE IF text[Len(text)] = " " THEN Strip(SubSeq(text, 1, Len(text) - 1))
    ELSE text

\* The characters of a topic as one string.
Text(chars) == Join(chars, "")

\* f"quiz_{current_topic.replace(' ', '_').lower()}{ext}".
FileName(current_topic, ext) ==
    "quiz_" \o
    Text([i \in 1..Len(current_topic) |->
             IF current_topic[i] = " " THEN "_" ELSE Lower(current_topic[i])])
    \o ext

\* Truth of a flag that may be None, and of a text that may be None.
TruthyFlag(x) == ~x.none /\ x.value
TruthyText(x) == ~x.none /\ x.value # ""

reset_quiz_state_keeps_started(state) ==
    [state EXCEPT !.feedback_shown = FALSE, !.selected_option = None,
                  !.answer_submitted = None, !.current_topic = <<>>]

\* reset_quiz_state: the keys ending in _shown or _started become False,
\* the others None, and current_topic the empty string.
reset_quiz_state(state) ==
    [state EXCEPT !.quiz_started = FALSE, !.feedback_shown = FALSE,
                  !.selected_option = None, !.answer_submitted = None,
                  !.current_topic = <<>>]

LLMService_init_unchecked(key) == "ok"

\* LLMService.__init__: ValueError without a key.
LLMService_init(key) == IF key THEN "ok" ELSE "ValueError"

\* The radio of this run is the one on the page of the user: the last run
\* drew it with the same key q_<index> and the same options.
SameRadio(u) ==
    /\ view[u].kind = "question"
    /\ view[u].answerable
    /\ view[u].index = current_question_index
    /\ HasCurrent
    /\ view[u].options = View(get_current_question.value).options

\* The value of the radio in this run: what the user picked on the page if
\* it is the same radio, else nothing.
Radio(u) == IF SameRadio(u) THEN view[u].radio ELSE None

\* The feedback block: st.success when last_feedback_is_correct is truthy,
\* st.error otherwise, each with last_feedback_explanation.
Feedback(last_feedback) ==
    IF last_feedback.result.none
    THEN [shown |-> "Incorrect", explanation |-> None]
    ELSE [shown |-> IF last_feedback.result.is_correct THEN "Correct"
                    ELSE "Incorrect",
          explanation |-> Value(last_feedback.result.explanation)]

\* The main content area of one run with session state `state`: the state
\* it leaves and the page it draws.
Page(state, radio) ==
    IF ~state.quiz_started
    THEN [ss |-> state, view |-> [kind |-> "topic"]]
    ELSE IF ~is_quiz_finished
    THEN LET current_question == View(get_current_question.value)
             answerable == ~TruthyFlag(state.answer_submitted)
         IN [ss |-> IF answerable
                    THEN [state EXCEPT !.selected_option = radio]
                    ELSE state,
             view |-> [kind |-> "question",
                       index |-> current_question_index,
                       question |-> current_question.question,
                       options |-> current_question.options,
                       topic |-> state.current_topic,
                       answerable |-> answerable,
                       radio |-> IF answerable THEN radio ELSE None,
                       feedback |-> IF state.feedback_shown
                                    THEN Feedback(state.last_feedback)
                                    ELSE [shown |-> "none"],
                       next_button |-> state.feedback_shown]]
    ELSE LET csv_data == export_to_csv(Views(user_answers))
         IN [ss |-> state,
             view |-> IF csv_data.raised # "none"
                      THEN [kind |-> "crash", topic |-> state.current_topic,
                            raised |-> csv_data.raised]
                      ELSE [kind |-> "results",
                            topic |-> state.current_topic,
                            summary |-> get_score_summary,
                            csv_name |-> FileName(state.current_topic, ".csv"),
                            docx_name |-> FileName(state.current_topic,
                                                   ".docx")]]

\* A run that handles no button: it draws the page.
Draw(u, radio) ==
    LET page == Page(ss[u], radio)
    IN /\ ss' = [ss EXCEPT ![u] = page.ss]
       /\ view' = [view EXCEPT ![u] = page.view]
       /\ pc' = [pc EXCEPT ![u] = "idle"]

\* The operator puts GOOGLE_API_KEY into the secrets or the environment.
provide_api_key ==
    /\ ~api_key
    /\ api_key' = TRUE
    /\ UNCHANGED <<quiz_manager, provider, retry, exported, llm_service, ss,
                   view, pc, supplied>>

\* A script run after st.rerun(), or the first run of a session.  The
\* services come from the cache or are built; when LLMService() raises, the
\* run shows the error and stops, and nothing is cached.
run(u) ==
    /\ pc[u] = "rerun"
    /\ LET built == llm_service \/ LLMService_init(api_key) = "ok"
       IN /\ llm_service' = built
          /\ IF built
             THEN Draw(u, Radio(u))
             ELSE /\ view' = [view EXCEPT ![u] = [kind |-> "error"]]
                  /\ pc' = [pc EXCEPT ![u] = "idle"]
                  /\ UNCHANGED ss
    /\ UNCHANGED <<quiz_manager, provider, retry, exported, api_key, supplied>>

\* Clear Cache and Restart on the error page: the cache holds nothing, and
\* the script runs again.
restart(u) ==
    /\ pc[u] = "idle"
    /\ view[u].kind = "error"
    /\ pc' = [pc EXCEPT ![u] = "rerun"]
    /\ UNCHANGED <<quiz_manager, provider, retry, exported, api_key,
                   llm_service, ss, view, supplied>>

\* The user picks an option of the radio on the page, and the script runs
\* with it: the radio of this run has the pick if it is the same radio.
select(u, option) ==
    /\ pc[u] = "idle"
    /\ view[u].kind = "question"
    /\ view[u].answerable
    /\ \E i \in 1..Len(view[u].options) : view[u].options[i] = option
    /\ Draw(u, IF SameRadio(u) THEN Value(option) ELSE None)
    /\ UNCHANGED <<quiz_manager, provider, retry, exported, api_key,
                   llm_service, supplied>>

\* Submit is clicked.  The run reaches the button only in the question
\* branch with the answer not yet submitted; with an option selected it goes
\* on to quiz_manager.submit_answer, otherwise it warns and draws the page.
click_submit(u) ==
    /\ pc[u] = "idle"
    /\ view[u].kind = "question"
    /\ view[u].answerable
    /\ IF /\ ss[u].quiz_started
          /\ ~is_quiz_finished
          /\ ~TruthyFlag(ss[u].answer_submitted)
          /\ TruthyText(Radio(u))
       THEN /\ ss' = [ss EXCEPT ![u].selected_option = Radio(u)]
            /\ pc' = [pc EXCEPT ![u] = "submit"]
            /\ UNCHANGED view
       ELSE Draw(u, Radio(u))
    /\ UNCHANGED <<quiz_manager, provider, retry, exported, api_key,
                   llm_service, supplied>>

\* The Submit handler from the call of submit_answer on: what it returns is
\* stored as the feedback, None or not, and the script is run again.
submit_call(u) ==
    /\ pc[u] = "submit"
    /\ submit_answer(ss[u].selected_option.value)
    /\ ss' = [ss EXCEPT
                 ![u].feedback_shown = TRUE,
                 ![u].last_feedback =
                     [set |-> TRUE,
                      result |-> IF last'.none THEN None
                                 ELSE [none |-> FALSE,
                                       is_correct |-> last'.is_correct,
                                       explanation |-> last'.explanation]],
                 ![u].answer_submitted = Value(TRUE)]
    /\ pc' = [pc EXCEPT ![u] = "rerun"]
    /\ UNCHANGED <<provider, retry, exported, api_key, llm_service, view,
                   supplied>>

\* Next Question is clicked.  The button is drawn in the question branch
\* under the feedback.
click_next(u) ==
    /\ pc[u] = "idle"
    /\ view[u].kind = "question"
    /\ view[u].next_button
    /\ IF ss[u].quiz_started /\ ~is_quiz_finished /\ ss[u].feedback_shown
       THEN /\ ss' = [ss EXCEPT ![u].selected_option = None,
                                ![u].answer_submitted = Value(FALSE),
                                ![u].feedback_shown = FALSE]
            /\ pc' = [pc EXCEPT ![u] = "rerun"]
            /\ UNCHANGED view
       ELSE Draw(u, Radio(u))
    /\ UNCHANGED <<quiz_manager, provider, retry, exported, api_key,
                   llm_service, supplied>>

\* Start New Quiz of the sidebar, which every run past the services draws.
click_start_new_quiz(u) ==
    /\ pc[u] = "idle"
    /\ view[u].kind \in {"topic", "question", "results", "crash"}
    /\ reset_quiz
    /\ ss' = [ss EXCEPT ![u] = reset_quiz_state(@)]
    /\ pc' = [pc EXCEPT ![u] = "rerun"]
    /\ UNCHANGED <<provider, retry, exported, api_key, llm_service, view,
                   supplied>>

\* New Quiz at the end of the results, below the downloads.
click_new_quiz(u) ==
    /\ pc[u] = "idle"
    /\ view[u].kind = "results"
    /\ IF /\ ss[u].quiz_started
          /\ is_quiz_finished
          /\ export_to_csv(Views(user_answers)).raised = "none"
       THEN /\ reset_quiz
            /\ ss' = [ss EXCEPT ![u] = reset_quiz_state(@)]
            /\ pc' = [pc EXCEPT ![u] = "rerun"]
            /\ UNCHANGED view
       ELSE /\ Draw(u, Radio(u))
            /\ UNCHANGED quiz_manager
    /\ UNCHANGED <<provider, retry, exported, api_key, llm_service, supplied>>

\* The handler of the Generate button and of a topic button, from the topic
\* on: the topic is recorded, the questions are asked for, and a list that
\* is not empty is loaded and the quiz started.
Generate(u, topic, questions_data) ==
    IF ~questions_data.none /\ Len(questions_data.value) > 0
    THEN /\ load_questions(questions_data.value)
         /\ ss' = [ss EXCEPT
                      ![u] = [reset_quiz_state([@ EXCEPT
                                                   !.current_topic = topic,
                                                   !.quiz_started = TRUE])
                                  EXCEPT !.quiz_started = TRUE]]
         /\ supplied' = [supplied EXCEPT ![u] = topic]
         /\ pc' = [pc EXCEPT ![u] = "rerun"]
         /\ UNCHANGED view
    ELSE /\ ss' = [ss EXCEPT ![u].current_topic = topic]
         /\ UNCHANGED <<quiz_manager, view, pc, supplied>>

\* Generate is clicked with topic_input in the box; a blank one is refused.
click_generate(u, topic_input, questions_data) ==
    /\ pc[u] = "idle"
    /\ view[u].kind = "topic"
    /\ IF Strip(topic_input) # <<>>
       THEN Generate(u, Strip(topic_input), questions_data)
       ELSE UNCHANGED <<quiz_manager, ss, view, pc, supplied>>
    /\ UNCHANGED <<provider, retry, exported, api_key, llm_service>>

\* One of the topic buttons is clicked.
click_topic(u, topic, questions_data) ==
    /\ pc[u] = "idle"
    /\ view[u].kind = "topic"
    /\ Generate(u, topic, questions_data)
    /\ UNCHANGED <<provider, retry, exported, api_key, llm_service>>

\* What a user session can do next.
Session(u) ==
    \/ run(u)
    \/ restart(u)
    \/ \E option \in ChosenOptions : select(u, option)
    \/ click_submit(u)
    \/ submit_call(u)
    \/ click_next(u)
    \/ click_start_new_quiz(u)
    \/ click_new_quiz(u)
    \/ \E topic_input \in TopicInputs, questions_data \in RetryResults :
           click_generate(u, topic_input, questions_data)
    \/ \E topic \in example_topics, questions_data \in RetryResults :
           click_topic(u, topic, questions_data)

\* The app with one user.
NextApp ==
    \/ provide_api_key
    \/ Session("u1")

SpecApp == Init /\ [][NextApp]_vars

\* The app with every user, their script runs interleaved.
NextShared ==
    \/ provide_api_key
    \/ \E u \in Users : Session(u)

SpecShared == Init /\ [][NextShared]_vars

\* ------------------------------------------------------- claims: helpers

\* The step is a call of submit_answer.
SubmitStep == last'.op = "submit_answer"

\* The step is a call of submit_answer that returned real feedback.
AcceptedStep == SubmitStep /\ ~last'.none

\* The entries of the answer log whose is_correct is true.
CorrectEntries == {i \in 1..Len(user_answers) : user_answers[i].is_correct}

\* Two quotients are the same number.
SameFrac(f, g) == f.num * g.den = g.num * f.den

\* ---------------------------------------------------------------- claims

\* C1: a submit_answer(chosen) on a session in progress appends exactly one
\* entry whose chosen_answer is chosen and whose is_correct is
\* (chosen = correct_answer of the question that was current), advances the
\* index by exactly 1 and returns (that is_correct, that question's
\* explanation).
C1_SubmitInProgress ==
    [][(SubmitStep /\ HasCurrent) =>
        LET q == questions[current_question_index + 1]
            n == Len(user_answers)
        IN /\ Len(user_answers') = n + 1
           /\ SubSeq(user_answers', 1, n) = user_answers
           /\ user_answers'[n + 1].chosen_answer = last'.arg
           /\ user_answers'[n + 1].is_correct = (last'.arg = q.correct_answer)
           /\ current_question_index' = current_question_index + 1
           /\ ~last'.none
           /\ last'.is_correct = (last'.arg = q.correct_answer)
           /\ last'.explanation = q.explanation]_vars

\* C1 witness: a submit on a session in progress has returned "incorrect"
\* for a text that differs from the correct answer by case only.
C1_Witness ==
    /\ last.op = "submit_answer"
    /\ ~last.none
    /\ last.arg = "A"
    /\ ~last.is_correct
    /\ user_answers[Len(user_answers)].correct_answer = "a"
    /\ current_question_index = 2

\* C2: submit_answer on a session with no questions, or on a finished one,
\* returns (None, None) and leaves questions, index, answers and score as
\* they were.
C2_SubmitRejected ==
    [][(SubmitStep /\ (questions = <<>> \/ is_quiz_finished)) =>
        /\ last'.none
        /\ UNCHANGED <<questions, current_question_index, user_answers,
                       score, heap>>]_vars

\* C2 witness: a submit was rejected on a finished session that holds
\* answers.
C2_Witness ==
    /\ last.op = "submit_answer"
    /\ last.none
    /\ Len(questions) = 2
    /\ Len(user_answers) = 2
    /\ score = 1

\* C3: the correct count of get_score_summary is the number of entries of
\* the answer log whose is_correct is true, and its total is len(questions).
C3_ScoreMatchesLog ==
    /\ get_score_summary.correct = Cardinality(CorrectEntries)
    /\ get_score_summary.total = Len(questions)
    /\ (last.op = "get_score_summary" =>
            /\ last.result.correct = Cardinality(CorrectEntries)
            /\ last.result.total = Len(questions))

\* C3 witness: get_score_summary was called on a log holding both correct
\* and incorrect entries, after an earlier quiz was replaced.
C3_Witness ==
    /\ last.op = "get_score_summary"
    /\ last.result.correct = 2
    /\ Len(user_answers) = 3

\* C4: after a load of n >= 1 questions and exactly n submit_answer calls
\* the quiz is finished, there is no current question and the summary is
\* (n, correct, n - correct); after fewer calls it is not finished.
C4_FinishedAfterExactlyN ==
    (submit_calls # NotLoaded /\ Len(questions) >= 1) =>
        /\ (submit_calls < Len(questions) => ~is_quiz_finished)
        /\ (submit_calls = Len(questions) =>
               /\ is_quiz_finished
               /\ get_current_question.none
               /\ get_score_summary =
                      [total |-> Len(questions),
                       correct |-> Cardinality(CorrectEntries),
                       incorrect |-> Len(questions) - Cardinality(CorrectEntries)])

\* C4 witness: the third of three submits has just finished a quiz of three.
C4_Witness ==
    /\ submit_calls = 3
    /\ Len(questions) = 3
    /\ last.op = "submit_answer"
    /\ is_quiz_finished
    /\ score = 2

\* C5: reset_quiz leaves the session empty, whatever state it was called in.
C5_ResetEmpties ==
    last.op = "reset_quiz" =>
        /\ questions = <<>>
        /\ user_answers = <<>>
        /\ current_question_index = 0
        /\ score = 0

\* C5 witness: reset_quiz was called on a quiz in progress.
C5_Witness ==
    /\ last.op = "reset_quiz"
    /\ last.before = "InProgress"

\* C6: load_questions sets the index to 0, clears answers and score and
\* stores the given list; the first record is then current, or the session
\* is finished at once when the list is empty.
C6_LoadStarts ==
    last.op = "load_questions" =>
        /\ current_question_index = 0
        /\ user_answers = <<>>
        /\ score = 0
        /\ Views(questions) = last.arg
        /\ (last.arg # <<>> =>
               /\ ~is_quiz_finished
               /\ ~get_current_question.none
               /\ View(get_current_question.value) = last.arg[1])
        /\ (last.arg = <<>> =>
               /\ is_quiz_finished
               /\ get_current_question.none)

\* C6 witness: a non-empty list was loaded over a quiz in progress that had
\* answers recorded.
C6_Witness ==
    /\ last.op = "load_questions"
    /\ last.before = "InProgress"
    /\ last.answered = 2
    /\ last.arg # <<>>

\* C7: get_current_question, is_quiz_finished and get_score_summary change
\* nothing of the session, and outside load_questions and reset_quiz the
\* index never decreases and moves only by +1, in an accepted submit_answer.
C7_OnlySubmitAdvances ==
    [][/\ (last'.op \in {"get_current_question", "is_quiz_finished",
                          "get_score_summary"} =>
              UNCHANGED <<questions, current_question_index, user_answers,
                          score, heap>>)
       /\ (last'.op \notin {"load_questions", "reset_quiz"} =>
              /\ current_question_index' >= current_question_index
              /\ (current_question_index' # current_question_index =>
                     /\ current_question_index' = current_question_index + 1
                     /\ AcceptedStep))]_vars

\* C7 witness: get_current_question was called in the middle of a quiz.
C7_Witness ==
    /\ last.op = "get_current_question"
    /\ ~last.result.none
    /\ current_question_index = 1
    /\ Len(questions) = 3

\* C8: outside load_questions and reset_quiz the answer log only grows at
\* its end: the old log is a prefix of the new one, an accepted
\* submit_answer adds exactly one entry, the submitted one, as the last, and
\* nothing else adds any.
C8_LogAppendOnly ==
    [][last'.op \notin {"load_questions", "reset_quiz"} =>
        LET n == Len(user_answers)
        IN /\ Len(user_answers') >= n
           /\ \A i \in 1..n : View(user_answers[i])' = View(user_answers[i])
           /\ (AcceptedStep =>
                  /\ Len(user_answers') = n + 1
                  /\ user_answers'[n + 1].chosen_answer = last'.arg
                  /\ user_answers'[n + 1].question =
                         questions[current_question_index + 1].question)
           /\ (~AcceptedStep => Len(user_answers') = n)]_vars

\* C8 witness: three entries, in the order they were submitted.
C8_Witness ==
    /\ last.op = "submit_answer"
    /\ Len(user_answers) = 3
    /\ user_answers[1].chosen_answer = "B"
    /\ user_answers[2].chosen_answer = "a"
    /\ user_answers[3].chosen_answer = "A"

\* C9: the question, options, correct_answer and explanation of an entry of
\* the answer log are copies: a later mutation of the question record
\* changes no field of an entry already in the log.
C9_EntriesAreCopies ==
    [][last'.op = "mutate" =>
        /\ Len(user_answers') = Len(user_answers)
        /\ \A i \in 1..Len(user_answers) :
               View(user_answers[i])' = View(user_answers[i])]_vars

\* C10: len(user_answers) = current_question_index in every state, so the
\* progress of calculate_progress is current_question_index/len(questions),
\* within [0, 1], when questions are loaded, and 0 when none are.
C10_ProgressIsPosition ==
    /\ Len(user_answers) = current_question_index
    /\ (questions # <<>> =>
           /\ SameFrac(calculate_progress,
                       Frac(current_question_index, Len(questions)))
           /\ 0 <= calculate_progress.num
           /\ calculate_progress.num <= calculate_progress.den
           /\ calculate_progress.den > 0)
    /\ (questions = <<>> => calculate_progress.num = 0)

\* C10 witness: two of three questions answered.
C10_Witness ==
    /\ Len(questions) = 3
    /\ Len(user_answers) = 2
    /\ calculate_progress = Frac(2, 3)

\* ------------------------------------------- claims about the provider

\* The call of the provider has returned or raised.
Returned == provider.phase = "returned"

\* The record q has the four fields, four options, and a correct_answer
\* that is one of them.
WellFormedRecord(q) ==
    /\ RequiredFields \subseteq DOMAIN q
    /\ Len(q.options) = 4
    /\ \E k \in 1..Len(q.options) : q.options[k] = q.correct_answer

\* The parsed elements the call looks at: the first num_questions of them.
FirstParsed ==
    SubSeq(provider.run.parsed, 1,
           IF Len(provider.run.parsed) < provider.num_questions
           THEN Len(provider.run.parsed) ELSE provider.num_questions)

\* The positions of FirstParsed that hold a well-formed record.
WellFormedPositions ==
    { k \in 1..Len(FirstParsed) :
        FirstParsed[k].t = "dict" /\ WellFormedRecord(FirstParsed[k].v) }

\* C11: generate returns a sequence of at most N records, each with the four
\* fields, four options and a correct_answer among its options; a parsed
\* record without correct_answer, or with one that is no option, is not in
\* it, and every other record looked at still is.
C11_GenerateReturnsValidRecords ==
    Returned =>
        /\ provider.run.result.raised = "none"
        /\ LET result == provider.run.result.value
           IN /\ Len(result) <= provider.num_questions
              /\ \A k \in 1..Len(result) : WellFormedRecord(result[k])
              /\ (provider.run.stage = "validate" =>
                     /\ Len(result) = Cardinality(WellFormedPositions)
                     /\ \A k \in WellFormedPositions :
                            \E m \in 1..Len(result) : result[m] = FirstParsed[k].v)

\* C11 witness: of two parsed records the first, whose correct_answer is no
\* option, is dropped and the second is returned.
C11_Witness ==
    /\ Returned
    /\ provider.num_questions = 2
    /\ provider.run.stage = "validate"
    /\ Len(provider.run.parsed) = 2
    /\ provider.run.parsed[1].t = "dict"
    /\ provider.run.parsed[1].v.question = "Q3"
    /\ Len(provider.run.result.value) = 1
    /\ provider.run.result.value[1].question = "Q1"

\* C12: every record generate returns has a non-empty question and four
\* distinct non-empty options, exactly one of them the correct_answer.
C12_OnlyQuestionRecordsAdmitted ==
    (Returned /\ provider.run.result.raised = "none") =>
        \A k \in 1..Len(provider.run.result.value) :
            LET q == provider.run.result.value[k]
            IN /\ q.question # ""
               /\ Len(q.options) = 4
               /\ \A i, j \in 1..4 : i # j => q.options[i] # q.options[j]
               /\ \A i \in 1..4 : q.options[i] # ""
               /\ Cardinality({i \in 1..4 : q.options[i] = q.correct_answer}) = 1

\* A reply that is an array of one well-formed record with a comma before
\* the closing bracket.
TrailingCommaReply ==
    <<Piece("["),
      ObjectPiece([question |-> "Q1", options |-> <<"A", "B", "C", "D">>,
                   correct_answer |-> "A", explanation |-> "E1"]),
      Piece(","), Piece("]")>>

\* C13: on a reply that is one well-formed record followed by a comma and
\* the closing bracket, generate reaches the repair, parses an array of one
\* element and returns that record.
C13_TrailingCommaRepaired ==
    (Returned /\ ~provider.response.failed
        /\ provider.response.text = TrailingCommaReply) =>
        /\ provider.run.stage = "validate"
        /\ Len(provider.run.parsed) = 1
        /\ provider.run.result.raised = "none"
        /\ Len(provider.run.result.value) = 1

\* C14: generate raises nothing when the model call fails, when no array is
\* found, when the text does not parse or when a parsed element is
\* malformed; it returns a sequence, empty in the first three cases.
C14_GenerateNeverRaises ==
    Returned =>
        /\ provider.run.result.raised = "none"
        /\ (provider.run.stage \in {"call", "search", "loads"} =>
               provider.run.result.value = <<>>)
        /\ (provider.response.failed => provider.run.stage = "call")

\* C14 witness: a number among the parsed elements was skipped and the
\* record before it returned.
C14_Witness ==
    /\ Returned
    /\ provider.run.stage = "validate"
    /\ provider.num_questions = 2
    /\ Len(provider.run.parsed) = 3
    /\ provider.run.parsed[2].t = "int"
    /\ Len(provider.run.result.value) = 1

\* An outcome of one call that gives no questions: None or the empty list.
Empty_outcome(o) == o.none \/ o.value = <<>>

RetryDone == retry.pc \in {"returned", "loaded", "failed"}

\* What holds of the loop and its caller in every state.
RetryBounded ==
    retry.pc # "idle" =>
        /\ Len(retry.outcomes) <= 3
        /\ \A k \in 1..(Len(retry.outcomes) - 1) :
               Empty_outcome(retry.outcomes[k])
        /\ retry.pc = "loop" =>
               \A k \in 1..Len(retry.outcomes) :
                   Empty_outcome(retry.outcomes[k])
        /\ RetryDone =>
               LET final == retry.outcomes[Len(retry.outcomes)]
               IN IF retry.result.none
                  THEN Len(retry.outcomes) = 3 /\ Empty_outcome(final)
                  ELSE /\ retry.result.value = final.value
                       /\ Len(retry.result.value) \in 1..retry.num_questions
        /\ retry.pc = "loaded" =>
               /\ ~retry.result.none
               /\ Len(questions) = Len(retry.result.value)
               /\ questions # <<>>
        /\ retry.pc = "failed" => retry.result.none /\ questions = <<>>

\* C15: the retry loop calls generate at most three times, makes a further
\* call only when the one before gave nothing, stops at the first non-empty
\* list and returns it even when it is shorter than requested, always comes
\* to an end, and its caller never loads an empty list.
C15_RetryLoop ==
    /\ []RetryBounded
    /\ (retry.pc = "loop") ~> (retry.pc \in {"loaded", "failed"})

\* A list shorter than requested was accepted on the third call and loaded.
C15_Witness ==
    /\ retry.pc = "loaded"
    /\ Len(retry.outcomes) = 3
    /\ retry.num_questions = 2
    /\ Len(retry.result.value) = 1
    /\ Len(questions) = 1

\* C19: export_to_csv gives, for every answer log, the empty one too, one
\* row per entry in log order, with the options joined by "; " and every
\* other field as in the entry, and leaves the log as it was.
C19_TableMatchesLog ==
    exported.op = "export_to_csv" =>
        LET log == exported.quiz_results
            result == exported.result
        IN /\ result.raised = "none"
           /\ Len(result.rows) = Len(log)
           /\ \A i \in 1..Len(log) :
                  /\ result.rows[i].options = Join(log[i].options, "; ")
                  /\ result.rows[i] =
                         [log[i] EXCEPT !.options = result.rows[i].options]
           /\ exported.after = log

\* What a user session sees of the QuizManager the app hands it.
Observed == <<Views(questions), Views(user_answers), current_question_index>>

\* The session of user v takes no part in the step.
Idle(v) == pc'[v] = pc[v] /\ ss'[v] = ss[v] /\ view'[v] = view[v]

\* C16: with several user sessions, a load, submit or reset of one session
\* leaves the questions, the answers and the index that another session
\* observes as they were.
C16_SessionsApart ==
    [][\A v \in Users :
           view[v].kind # "none" /\ Idle(v) => Observed' = Observed]_vars

\* C17: the (None, None) of submit_answer is never taken for feedback: it
\* is neither stored as the last feedback of a session nor shown on a page.
C17_SentinelNeverFeedback ==
    \A u \in Users :
        /\ ss[u].last_feedback.set => ~ss[u].last_feedback.result.none
        /\ view[u].kind = "question" /\ view[u].feedback.shown # "none" =>
               ~view[u].feedback.explanation.none

\* C18: a missing credential fails the construction of the provider, and
\* until a construction has succeeded no session gets past the error page:
\* nothing was generated, loaded or submitted.
C18_NoServiceNoInteraction ==
    /\ llm_service => api_key
    /\ ~llm_service =>
           /\ last.op = "__init__"
           /\ questions = <<>> /\ user_answers = <<>>
           /\ \A u \in Users :
                  /\ view[u].kind \in {"none", "error"}
                  /\ pc[u] \in {"idle", "rerun"}
                  /\ ss[u] = NewSessionState
                  /\ supplied[u] = <<>>

\* A session stands at the error page after a run without the credential.
C18_Witness ==
    /\ ~api_key
    /\ ~llm_service
    /\ view["u1"].kind = "error"
    /\ pc["u1"] = "idle"

\* C20: the topic shown during the quiz and the names of the two downloads
\* come from the topic the user gave for this quiz.
C20_FileNamesFromTopic ==
    \A u \in Users :
        /\ view[u].kind = "question" => view[u].topic = supplied[u]
        /\ view[u].kind = "results" =>
               /\ view[u].topic = supplied[u]
               /\ view[u].csv_name = FileName(supplied[u], ".csv")
               /\ view[u].docx_name = FileName(supplied[u], ".docx")

\* C21: the index stays within 0..len(questions); is_quiz_finished is true
\* exactly when the index equals len(questions); get_current_question
\* returns None exactly then and questions[index] otherwise; a session
\* without questions is finished and has no current question.
C21_IndexWithinBounds ==
    /\ 0 <= current_question_index
    /\ current_question_index <= Len(questions)
    /\ is_quiz_finished <=> current_question_index = Len(questions)
    /\ get_current_question.none <=> is_quiz_finished
    /\ ~is_quiz_finished =>
           get_current_question.value = questions[current_question_index + 1]
    /\ questions = <<>> => is_quiz_finished /\ get_current_question.none
    /\ last.op = "get_current_question" => last.result = get_current_question
    /\ last.op = "is_quiz_finished" => last.result = is_quiz_finished

\* C21 witness: get_current_question was called in the middle of a quiz and
\* returned the second question, which differs from the first.
C21_Witness ==
    /\ last.op = "get_current_question"
    /\ ~last.result.none
    /\ current_question_index = 1
    /\ Len(questions) = 3
    /\ last.result.value = questions[2]
    /\ questions[2].question # questions[1].question

\* The entries of the answer log whose is_correct is false.
WrongEntries == {i \in 1..Len(user_answers) : ~user_answers[i].is_correct}

\* C22: get_score_summary returns (total, correct, incorrect) with
\* correct + incorrect = total, 0 <= correct <= len(answers) <= total,
\* incorrect >= 0, and incorrect = the wrong entries of the log plus the
\* questions not yet answered.
C22_SummaryCountsUnanswered ==
    LET summary == get_score_summary
    IN /\ summary.correct + summary.incorrect = summary.total
       /\ 0 <= summary.correct
       /\ summary.correct <= Len(user_answers)
       /\ Len(user_answers) <= summary.total
       /\ summary.incorrect >= 0
       /\ summary.incorrect =
              Cardinality(WrongEntries) + (Len(questions) - Len(user_answers))
       /\ last.op = "get_score_summary" => last.result = summary

\* C22 witness: the summary was asked for with one wrong answer given and
\* two questions of three unanswered, and reports three incorrect.
C22_Witness ==
    /\ last.op = "get_score_summary"
    /\ Len(questions) = 3
    /\ Len(user_answers) = 1
    /\ ~user_answers[1].is_correct
    /\ last.result = [total |-> 3, correct |-> 0, incorrect |-> 3]

\* The m-th smallest of a set of positions.
Nth(S, m) == CHOOSE k \in S : Cardinality({j \in S : j < k}) = m - 1

\* C23: generate truncates to N before it validates: the result is the
\* valid records among the first N parsed elements, in parse order and
\* nothing else; so with more than N elements parsed and one of the first N
\* invalid the result has fewer than N records, whatever follows.
C23_TruncatesThenValidates ==
    (Returned /\ provider.run.stage = "validate") =>
        LET result == provider.run.result.value
            N == provider.num_questions
        IN /\ Len(result) = Cardinality(WellFormedPositions)
           /\ \A m \in 1..Len(result) :
                  result[m] = FirstParsed[Nth(WellFormedPositions, m)].v
           /\ (Len(provider.run.parsed) > N
                 /\ WellFormedPositions # 1..N) => Len(result) < N

\* C23 witness: three elements were parsed for a request of two, the second
\* is invalid and the third valid: one record is returned.
C23_Witness ==
    /\ Returned
    /\ provider.run.stage = "validate"
    /\ provider.num_questions = 2
    /\ Len(provider.run.parsed) = 3
    /\ WellFormedPositions = {1}
    /\ provider.run.parsed[3].t = "dict"
    /\ WellFormedRecord(provider.run.parsed[3].v)
    /\ Len(provider.run.result.value) = 1
    /\ provider.run.result.value[1] = provider.run.parsed[1].v

\* C24: in the app every entry of the answer log has for chosen_answer one
\* of the options of the question the entry records.
C24_ChosenAmongOptions ==
    \A i \in 1..Len(user_answers) :
        \E k \in 1..Len(View(user_answers[i]).options) :
            View(user_answers[i]).options[k] = user_answers[i].chosen_answer

\* C25: while no loaded record is mutated, the i-th entry of the answer log
\* was made from the i-th loaded question: it has that question's text,
\* correct_answer and explanation, and the questions are answered in
\* sequence, none skipped and none twice.
C25_EntriesFollowQuestions ==
    /\ Len(user_answers) = current_question_index
    /\ Len(user_answers) <= Len(questions)
    /\ \A i \in 1..Len(user_answers) :
           /\ user_answers[i].question = questions[i].question
           /\ user_answers[i].correct_answer = questions[i].correct_answer
           /\ user_answers[i].explanation = questions[i].explanation

\* C25 witness: two questions of three different ones were answered, after
\* an earlier quiz had been answered in part and replaced.
C25_Witness ==
    /\ Len(questions) = 3
    /\ Len(user_answers) = 2
    /\ questions[1].question = "Q3"
    /\ questions[2].question = "Q1"
    /\ questions[3].question = "Q2"
    /\ user_answers[2].question = "Q1"
    /\ last.op = "submit_answer"

\* The page of the user is the results view, or what is left of it when the
\* export raised.
AtResults(u) == view[u].kind \in {"results", "crash"}

\* C26: the results view is reached only from a page that displayed the
\* feedback of the last answer: a run that brings the results replaces a
\* question page on which correctness and explanation were shown.
C26_FeedbackBeforeResults ==
    [][\A u \in Users :
           ~AtResults(u) /\ AtResults(u)' =>
               /\ view[u].kind = "question"
               /\ view[u].feedback.shown # "none"]_vars

\* C27: a question page that displays feedback displays the text and the
\* options of the question that was answered last.
C27_FeedbackBesideItsQuestion ==
    \A u \in Users :
        /\ view[u].kind = "question"
        /\ view[u].feedback.shown # "none"
        /\ user_answers # <<>>
        => /\ view[u].question = user_answers[Len(user_answers)].question
           /\ view[u].options =
                  View(user_answers[Len(user_answers)]).options

\* The session object is in its Empty state.
Empty ==
    /\ questions = <<>>
    /\ current_question_index = 0
    /\ user_answers = <<>>
    /\ score = 0
    /\ ~quiz_started

\* C28: with one user, a session whose quiz_started flag is set holds at
\* least one question; the results are on the page of a started quiz only
\* with every question answered, and there is at least one; and a step
\* that clears the flag of the user or the questions of the session object
\* leaves the session object Empty and the flag cleared, both together.
C28_FlagAndSessionTogether ==
    /\ [](\A u \in Users :
              /\ ss[u].quiz_started => Len(questions) >= 1
              /\ AtResults(u) /\ ss[u].quiz_started =>
                     /\ view[u].kind = "results"
                     /\ Len(user_answers) = Len(questions)
                     /\ Len(questions) >= 1)
    /\ [][\A u \in Users :
              \/ ss[u].quiz_started /\ ~ss'[u].quiz_started
              \/ ss[u].quiz_started /\ questions # <<>> /\ questions' = <<>>
              => Empty' /\ ~ss'[u].quiz_started]_vars

\* C28 witness: New Quiz was clicked on the results of a quiz of two
\* questions; the results are still on the page and the next run is due.
C28_Witness ==
    /\ view["u1"].kind = "results"
    /\ view["u1"].summary.total = 2
    /\ pc["u1"] = "rerun"
    /\ last.op = "reset_quiz"
    /\ Empty
    /\ ~ss["u1"].quiz_started

====
